---- MODULE Spec2Model ----
(***************************************************************************)
(* StyleAgent image generation scripts.                                    *)
(*                                                                         *)
(*   scripts/enhanced_outfit_generator.py  ModelManager, EnhancedGenerator *)
(*                                          and the command line main()    *)
(*   scripts/generate_outfit_image.py      the legacy JSON entry point     *)
(*   scripts/install_flux_models.py        the model installer              *)
(*                                                                         *)
(* One behaviour is one process.  program says which code runs:            *)
(*   "enhanced_cli"  main() of enhanced_outfit_generator.py: import guard, *)
(*                   argparse, one EnhancedGenerator, one request, JSON     *)
(*                   envelope, exit;                                        *)
(*   "enhanced_api"  a caller that constructs one EnhancedGenerator and    *)
(*                   calls generate_outfit_image on it repeatedly; an      *)
(*                   exception of a call reaches that caller, which may    *)
(*                   go on to the next request;                            *)
(*   "legacy"        main() of generate_outfit_image.py;                   *)
(*   "installer"     main() of install_flux_models.py (SpecInstaller).      *)
(*                                                                         *)
(* Memory sizes are whole gigabytes: the code compares the float vram_gb   *)
(* with integer thresholds only, and v >= n iff floor(v) >= n.             *)
(***************************************************************************)
EXTENDS Integers, Sequences, FiniteSets, TLC

\* ---------------------------------------------------------------- bounds
\* largest accelerator memory a CUDA device reports, in GB
MaxVram == 17
\* largest total system memory psutil reports, in GB
MaxRam == 28
\* requests one caller issues on one EnhancedGenerator ("enhanced_api")
MaxRequests == 3
\* millisecond clock readings that time.time() can return at the save
MaxClock == 1
\* largest accelerator memory and total memory the installer's probe
\* reports, in GB
MaxInstallVram == 25
MaxInstallRam == 41

\* ------------------------------------------------------------- constants
None == "None"
\* system_info not computed yet / the process has not exited yet
Unset == 0 - 1
Running == 0 - 1

Programs == {"enhanced_cli", "enhanced_api", "legacy"}
Devices == {"mps", "cuda", "cpu"}
Presets == {"preview", "standard", "high_quality", "commercial"}
\* directories that may exist under models_dir
ModelDirs == {"juggernaut-xl", "realvis-xl", "sdxl-lightning", "sd15"}

\* the table of _scan_available_models: type, scores and vram_required
sdxl_models ==
    [m \in {"juggernaut-xl", "realvis-xl", "sdxl-lightning"} |->
        CASE m = "juggernaut-xl" ->
               [type |-> "sdxl", quality_score |-> 95, speed_score |-> 70,
                vram_required |-> 8]
          [] m = "realvis-xl" ->
               [type |-> "sdxl", quality_score |-> 98, speed_score |-> 65,
                vram_required |-> 10]
          [] m = "sdxl-lightning" ->
               [type |-> "sdxl", quality_score |-> 85, speed_score |-> 95,
                vram_required |-> 6]]

\* exceptions and exits, by the place that raises them
NoCompatible == "RuntimeError: No compatible models found"
ErrDetect == "detection error"
ErrLoad == "model load failure"
ErrInfer == "inference failure"
ErrMakedirs == "makedirs failure"
ErrSave == "image save failure"
ErrImport == "ImportError"
ErrArgs == "bad CLI arguments"
ErrParams == "bad request parameters"

\* output paths: <<>> is Python's None, <<dir, base>> an explicit path as
\* os.path.dirname / basename split it, <<dir, stem, t>> the default path
\* with the millisecond timestamp t
NoPath == <<>>
ExplicitPaths == {<<"/out", "look.png">>, <<"", "look.png">>}
DefaultDir == "/Users/kaiyakramer/styleagent/generated_outfits"

VARIABLES
    program,          \* which entry point this process runs
    pc,               \* position of the process
    deps_ok,          \* torch / diffusers / PIL / numpy import successfully
    disk,             \* directories present under models_dir
    device,           \* ModelManager.device
    vram_gb,          \* ModelManager.system_info["vram_gb"]
    loaded_pipeline,  \* ModelManager.loaded_pipeline: the model it was loaded from
    current_model,    \* ModelManager.current_model
    quality_preset,   \* argument of the current request
    output_path,      \* argument of the current request (legacy: params["filename"])
    model_info,       \* local of generate_outfit_image
    pipeline,         \* local of generate_outfit_image
    error,            \* the exception raised, None when none was
    written,          \* paths image.save wrote during the current request
    envelope,         \* what the process printed as its result on stdout
    result_path,      \* path the request returned (output_path / image_path)
    exit_code,        \* process exit status, Running until it exits
    requests,         \* requests issued so far on this generator
    load_calls,       \* load_pipeline calls made by the current request
    cached_before,    \* current_model when the current request started
    select_log,       \* first outcome of get_optimal_model per preset
    select_calls,     \* get_optimal_model calls made by the current request
    infer_calls,      \* inference calls (pipeline(...)) made by the current request
    reqs,             \* installer: outcome of the requirements stage
    plan,             \* installer: models_to_download, as model directory names
    results,          \* installer: download_model's result per attempted download
    success_count,    \* installer: local of download_flux_models
    returned,         \* installer: the tuple download_flux_models returned
    config_writes     \* installer: times model_config.json was written

vars == <<program, pc, deps_ok, disk, device, vram_gb, loaded_pipeline,
          current_model, quality_preset, output_path, model_info, pipeline,
          error, written, envelope, result_path, exit_code, requests,
          load_calls, cached_before, select_log, select_calls, infer_calls,
          reqs, plan, results, success_count, returned, config_writes>>

call_counts == <<select_calls, infer_calls>>
installer_vars == <<reqs, plan, results, success_count, returned, config_writes>>

\* ------------------------------------------------------ ModelManager
\* _detect_device: the probes' answers decide the device
_detect_device(mps_available, cuda_available) ==
    IF mps_available THEN "mps"
    ELSE IF cuda_available THEN "cuda"
    ELSE "cpu"

\* _get_system_info: vram_gb for the device; ram_gb is psutil's total,
\* cuda_mem the device's total_memory
_get_system_info(dev, ram_gb, cuda_mem) ==
    IF dev = "mps" THEN (ram_gb * 6) \div 10
    ELSE IF dev = "cuda" THEN cuda_mem
    ELSE 0

\* _scan_available_models: the sdxl_models entries whose path exists
_scan_available_models(d) ==
    {m \in DOMAIN sdxl_models : m \in d}

get_optimal_model_by_score(preset, d, vram) ==
    LET available_models == _scan_available_models(d)
        best(S) == CHOOSE m \in S : \A n \in S :
                      sdxl_models[n].quality_score <= sdxl_models[m].quality_score
        pick(S) == IF S \cap available_models # {}
                   THEN best(S \cap available_models) ELSE NoCompatible
    IN  IF preset = "commercial" /\ vram >= 16
        THEN pick({"realvis-xl", "juggernaut-xl"})
        ELSE IF preset \in {"high_quality", "standard"} /\ vram >= 8
        THEN pick({"juggernaut-xl", "realvis-xl"})
        ELSE IF preset = "preview" /\ vram >= 6
        THEN pick({"sdxl-lightning", "juggernaut-xl"})
        ELSE NoCompatible

get_optimal_model_no_threshold(preset, d, vram) ==
    LET available_models == _scan_available_models(d)
    IN  IF preset = "commercial"
        THEN IF "realvis-xl" \in available_models THEN "realvis-xl"
             ELSE IF "juggernaut-xl" \in available_models THEN "juggernaut-xl"
             ELSE NoCompatible
        ELSE IF preset \in {"high_quality", "standard"}
        THEN IF "juggernaut-xl" \in available_models THEN "juggernaut-xl"
             ELSE IF "realvis-xl" \in available_models THEN "realvis-xl"
             ELSE NoCompatible
        ELSE IF "sdxl-lightning" \in available_models THEN "sdxl-lightning"
             ELSE IF "juggernaut-xl" \in available_models THEN "juggernaut-xl"
             ELSE NoCompatible

\* lines 78-104 of get_optimal_model: the ordered rules over the scanned
\* models; the result is the model name, or NoCompatible when it raises
priority_rules(preset, available_models, vram) ==
    LET fallback == IF "sd15" \in available_models THEN "sd15" ELSE NoCompatible
    IN  IF preset = "commercial" /\ vram >= 16
        THEN IF "realvis-xl" \in available_models THEN "realvis-xl"
             ELSE IF "juggernaut-xl" \in available_models THEN "juggernaut-xl"
             ELSE fallback
        ELSE IF preset \in {"high_quality", "standard"} /\ vram >= 8
        THEN IF "juggernaut-xl" \in available_models THEN "juggernaut-xl"
             ELSE IF "realvis-xl" \in available_models THEN "realvis-xl"
             ELSE fallback
        ELSE IF preset = "preview" /\ vram >= 6
        THEN IF "sdxl-lightning" \in available_models THEN "sdxl-lightning"
             ELSE IF "juggernaut-xl" \in available_models THEN "juggernaut-xl"
             ELSE fallback
        ELSE fallback

get_optimal_model_sticky(preset, d, vram) ==
    IF current_model # None /\ current_model \in _scan_available_models(d)
    THEN current_model
    ELSE priority_rules(preset, _scan_available_models(d), vram)

get_optimal_model_fallthrough(preset, d, vram) ==
    LET available_models == _scan_available_models(d)
        own == priority_rules(preset, available_models, vram)
    IN  IF own # NoCompatible THEN own
        ELSE IF vram >= 8 /\ "juggernaut-xl" \in available_models
        THEN "juggernaut-xl"
        ELSE IF vram >= 6 /\ "sdxl-lightning" \in available_models
        THEN "sdxl-lightning"
        ELSE NoCompatible

\* get_optimal_model (lines 72-104): scan the disk, read vram_gb, apply the
\* rules.  The scan yields sdxl_models entries only, so the sd15 test of the
\* fallback reads a key the scan never produces.
get_optimal_model(preset, d, vram) ==
    priority_rules(preset, _scan_available_models(d), vram)

\* lines 262-263: the condition under which generate_outfit_image loads
NeedsLoad_only_when_empty ==
    loaded_pipeline = None

NeedsLoad ==
    loaded_pipeline = None \/ current_model # model_info

\* os.path.dirname of a path
dirname(p) == p[1]

ResolveOutputPath_always_default(op, t) ==
    <<DefaultDir, "enhanced_outfit", t>>

\* lines 287-289: the path the image is saved to
ResolveOutputPath(op, t) ==
    IF op = NoPath THEN <<DefaultDir, "enhanced_outfit", t>> ELSE op

\* ------------------------------------------------------------- Init
Init ==
    /\ program \in Programs
    /\ pc = "start"
    /\ deps_ok \in BOOLEAN
    /\ disk \in (IF program = "legacy" THEN {{}} ELSE SUBSET ModelDirs)
    /\ device = None
    /\ vram_gb = Unset
    /\ loaded_pipeline = None
    /\ current_model = None
    /\ quality_preset = None
    /\ output_path = NoPath
    /\ model_info = None
    /\ pipeline = None
    /\ error = None
    /\ written = {}
    /\ envelope = None
    /\ result_path = NoPath
    /\ exit_code = Running
    /\ requests = 0
    /\ load_calls = 0
    /\ cached_before = None
    /\ select_log = [p \in Presets |-> None]
    /\ select_calls = 0
    /\ infer_calls = 0
    /\ reqs = None
    /\ plan = <<>>
    /\ results = <<>>
    /\ success_count = 0
    /\ returned = <<>>
    /\ config_writes = 0

Enhanced == program \in {"enhanced_cli", "enhanced_api"}
Cli == program = "enhanced_cli"

\* an exception leaves generate_outfit_image (or the constructor): main's
\* except clause takes it, or the caller of the API gets it
Raise(e) ==
    /\ error' = e
    /\ pc' = IF Cli THEN "main_except" ELSE "ready"

\* ------------------------------------- enhanced_outfit_generator.py
\* lines 17-32: the import guard prints two plain lines and exits 1
ImportGuard ==
    /\ Enhanced /\ pc = "start"
    /\ IF deps_ok
       THEN /\ pc' = IF Cli THEN "argparse" ELSE "construct"
            /\ UNCHANGED <<error, envelope, exit_code>>
       ELSE /\ error' = ErrImport
            /\ envelope' = "text"
            /\ exit_code' = 1
            /\ pc' = "exited"
    /\ UNCHANGED <<program, deps_ok, disk, device, vram_gb, loaded_pipeline,
                   current_model, quality_preset, output_path, model_info,
                   pipeline, written, result_path, requests, load_calls,
                   cached_before, select_log>>
    /\ UNCHANGED call_counts
    /\ UNCHANGED installer_vars

\* lines 323-334: argparse; on bad arguments it prints usage to stderr and
\* exits 2 before main's try block is entered
ParseArgs ==
    /\ Cli /\ pc = "argparse"
    /\ \E ok \in BOOLEAN :
         IF ok
         THEN /\ \E q \in Presets, o \in {NoPath} \cup ExplicitPaths :
                   /\ quality_preset' = q
                   /\ output_path' = o
              /\ pc' = "construct"
              /\ UNCHANGED <<error, exit_code>>
         ELSE /\ error' = ErrArgs
              /\ exit_code' = 2
              /\ pc' = "exited"
              /\ UNCHANGED <<quality_preset, output_path>>
    /\ UNCHANGED <<program, deps_ok, disk, device, vram_gb, loaded_pipeline,
                   current_model, model_info, pipeline, written, envelope,
                   result_path, requests, load_calls, cached_before,
                   select_log>>
    /\ UNCHANGED call_counts
    /\ UNCHANGED installer_vars

\* lines 209-211 and 37-70: EnhancedGenerator() builds the ModelManager,
\* which probes the device and the memory with no try around the probes
Construct ==
    /\ Enhanced /\ pc = "construct"
    /\ \E probe_ok \in BOOLEAN :
         IF probe_ok
         THEN /\ \E mps \in BOOLEAN, cuda \in BOOLEAN,
                    ram \in 0..MaxRam, mem \in 0..MaxVram :
                   /\ device' = _detect_device(mps, cuda)
                   /\ vram_gb' = _get_system_info(_detect_device(mps, cuda), ram, mem)
              /\ loaded_pipeline' = None
              /\ current_model' = None
              /\ pc' = "ready"
              /\ UNCHANGED error
         ELSE /\ error' = ErrDetect
              /\ pc' = IF Cli THEN "main_except" ELSE "crashed"
              /\ UNCHANGED <<device, vram_gb, loaded_pipeline, current_model>>
    /\ UNCHANGED <<program, deps_ok, disk, quality_preset, output_path,
                   model_info, pipeline, written, envelope, result_path,
                   exit_code, requests, load_calls, cached_before, select_log>>
    /\ UNCHANGED call_counts
    /\ UNCHANGED installer_vars

\* lines 246-256: a call of generate_outfit_image; main calls it once with
\* the parsed arguments, an API caller as often as it likes
CallGenerate ==
    /\ Enhanced /\ pc = "ready"
    /\ IF Cli
       THEN /\ requests = 0
            /\ UNCHANGED <<quality_preset, output_path>>
       ELSE /\ requests < MaxRequests
            /\ \E q \in Presets, o \in {NoPath} \cup ExplicitPaths :
                 /\ quality_preset' = q
                 /\ output_path' = o
    /\ requests' = requests + 1
    /\ model_info' = None
    /\ pipeline' = None
    /\ error' = None
    /\ written' = {}
    /\ result_path' = NoPath
    /\ load_calls' = 0
    /\ cached_before' = current_model
    /\ pc' = "select"
    /\ UNCHANGED <<program, deps_ok, disk, device, vram_gb, loaded_pipeline,
                   current_model, envelope, exit_code, select_log>>
    /\ select_calls' = 0
    /\ infer_calls' = 0
    /\ UNCHANGED installer_vars

\* line 259: model_info = get_optimal_model(quality_preset)
GetOptimalModel ==
    /\ Enhanced /\ pc = "select"
    /\ LET r == get_optimal_model(quality_preset, disk, vram_gb)
       IN  /\ select_log' = IF select_log[quality_preset] = None
                            THEN [select_log EXCEPT ![quality_preset] = r]
                            ELSE select_log
           /\ IF r = NoCompatible
              THEN /\ Raise(NoCompatible)
                   /\ UNCHANGED model_info
              ELSE /\ model_info' = r
                   /\ pc' = "load"
                   /\ UNCHANGED error
    /\ UNCHANGED <<program, deps_ok, disk, device, vram_gb, loaded_pipeline,
                   current_model, quality_preset, output_path, pipeline,
                   written, envelope, result_path, exit_code, requests,
                   load_calls, cached_before>>
    /\ select_calls' = select_calls + 1
    /\ UNCHANGED infer_calls
    /\ UNCHANGED installer_vars

load_pipeline_assign_before_fail(ok) ==
    /\ load_calls' = load_calls + 1
    /\ loaded_pipeline' = model_info
    /\ current_model' = model_info
    /\ IF ok
       THEN /\ pipeline' = model_info
            /\ pc' = "infer"
            /\ UNCHANGED error
       ELSE /\ Raise(ErrLoad)
            /\ UNCHANGED pipeline

\* lines 145-187: load_pipeline; the cache is assigned only after
\* from_pretrained and the device placement returned
load_pipeline(ok) ==
    /\ load_calls' = load_calls + 1
    /\ IF ok
       THEN /\ loaded_pipeline' = model_info
            /\ current_model' = model_info
            /\ pipeline' = model_info
            /\ pc' = "infer"
            /\ UNCHANGED error
       ELSE /\ Raise(ErrLoad)
            /\ UNCHANGED <<loaded_pipeline, current_model, pipeline>>

\* lines 261-266: load the pipeline if needed, else take the cached one
LoadOrReuse ==
    /\ Enhanced /\ pc = "load"
    /\ IF NeedsLoad
       THEN \E ok \in BOOLEAN : load_pipeline(ok)
       ELSE /\ pipeline' = loaded_pipeline
            /\ pc' = "infer"
            /\ UNCHANGED <<loaded_pipeline, current_model, error, load_calls>>
    /\ UNCHANGED <<program, deps_ok, disk, device, vram_gb, quality_preset,
                   output_path, model_info, written, envelope, result_path,
                   exit_code, requests, cached_before, select_log>>
    /\ UNCHANGED call_counts
    /\ UNCHANGED installer_vars

Infer_retry_once ==
    /\ Enhanced /\ pc = "infer"
    /\ \E ok \in BOOLEAN :
         IF ok
         THEN pc' = "save" /\ UNCHANGED error
         ELSE IF infer_calls = 0
         THEN UNCHANGED <<pc, error>>
         ELSE Raise(ErrInfer)
    /\ UNCHANGED <<program, deps_ok, disk, device, vram_gb, loaded_pipeline,
                   current_model, quality_preset, output_path, model_info,
                   pipeline, written, envelope, result_path, exit_code,
                   requests, load_calls, cached_before, select_log>>
    /\ infer_calls' = infer_calls + 1
    /\ UNCHANGED select_calls
    /\ UNCHANGED installer_vars

\* lines 274-284 and 317-319: the inference call
Infer ==
    /\ Enhanced /\ pc = "infer"
    /\ \E ok \in BOOLEAN :
         IF ok
         THEN pc' = "save" /\ UNCHANGED error
         ELSE Raise(ErrInfer)
    /\ UNCHANGED <<program, deps_ok, disk, device, vram_gb, loaded_pipeline,
                   current_model, quality_preset, output_path, model_info,
                   pipeline, written, envelope, result_path, exit_code,
                   requests, load_calls, cached_before, select_log>>
    /\ infer_calls' = infer_calls + 1
    /\ UNCHANGED select_calls
    /\ UNCHANGED installer_vars

SaveImage_then_raise ==
    /\ Enhanced /\ pc = "save"
    /\ \E t \in 0..MaxClock :
         LET path == ResolveOutputPath(output_path, t)
         IN  /\ written' = written \cup {path}
             /\ Raise(ErrSave)
    /\ UNCHANGED <<program, deps_ok, disk, device, vram_gb, loaded_pipeline,
                   current_model, quality_preset, output_path, model_info,
                   pipeline, envelope, result_path, exit_code, requests,
                   load_calls, cached_before, select_log>>
    /\ UNCHANGED call_counts
    /\ UNCHANGED installer_vars

\* lines 286-315: resolve the path, make its directory, save, return.
\* os.makedirs("") raises, so a path with no directory part never saves;
\* image.save either writes the file and returns or raises with no file.
SaveImage ==
    /\ Enhanced /\ pc = "save"
    /\ \E t \in 0..MaxClock, mk_ok \in BOOLEAN, save_ok \in BOOLEAN :
         LET path == ResolveOutputPath(output_path, t)
         IN  IF dirname(path) = "" \/ ~mk_ok
             THEN Raise(ErrMakedirs) /\ UNCHANGED <<written, result_path>>
             ELSE IF ~save_ok
             THEN Raise(ErrSave) /\ UNCHANGED <<written, result_path>>
             ELSE /\ written' = written \cup {path}
                  /\ result_path' = path
                  /\ pc' = IF Cli THEN "main_ok" ELSE "ready"
                  /\ UNCHANGED error
    /\ UNCHANGED <<program, deps_ok, disk, device, vram_gb, loaded_pipeline,
                   current_model, quality_preset, output_path, model_info,
                   pipeline, envelope, exit_code, requests, load_calls,
                   cached_before, select_log>>
    /\ UNCHANGED call_counts
    /\ UNCHANGED installer_vars

\* lines 348-357: main prints the success envelope and returns (exit 0)
MainSuccess ==
    /\ Cli /\ pc = "main_ok"
    /\ envelope' = "success"
    /\ exit_code' = 0
    /\ pc' = "exited"
    /\ UNCHANGED <<program, deps_ok, disk, device, vram_gb, loaded_pipeline,
                   current_model, quality_preset, output_path, model_info,
                   pipeline, error, written, result_path, requests,
                   load_calls, cached_before, select_log>>
    /\ UNCHANGED call_counts
    /\ UNCHANGED installer_vars

\* lines 359-372: main prints the failure envelope and exits 1
MainExcept ==
    /\ Cli /\ pc = "main_except"
    /\ envelope' = "failure"
    /\ exit_code' = 1
    /\ pc' = "exited"
    /\ UNCHANGED <<program, deps_ok, disk, device, vram_gb, loaded_pipeline,
                   current_model, quality_preset, output_path, model_info,
                   pipeline, error, written, result_path, requests,
                   load_calls, cached_before, select_log>>
    /\ UNCHANGED call_counts
    /\ UNCHANGED installer_vars

\* --------------------------------------------- generate_outfit_image.py
\* sys.argv of the legacy script
LegacyArgv == {"none", "test_availability", "generate_noparams",
               "generate_badjson", "generate", "unknown"}
\* params["filename"]: absent, or a name split before its extension
LegacyFilenames == {NoPath, <<"look">>, <<"look", ".png">>}
LegacyOutputDir == "./generated_outfits"

\* lines 103-105: the default name never ends in .png; a given name gets
\* the extension appended unless it ends with it
LegacyFilename(f, t) ==
    IF f = NoPath THEN <<"outfit", t, ".png">>
    ELSE IF f[Len(f)] = ".png" THEN f
    ELSE Append(f, ".png")

\* lines 127-166: main dispatches on argv; the argument errors print the
\* failure JSON and exit 1
LegacyMain ==
    /\ program = "legacy" /\ pc = "start"
    /\ \E argv \in LegacyArgv :
         IF argv = "test_availability"
         THEN /\ pc' = "test_availability"
              /\ UNCHANGED <<output_path, error, envelope, exit_code, requests>>
         ELSE IF argv = "generate"
         THEN /\ \E f \in LegacyFilenames : output_path' = f
              /\ requests' = 1
              /\ pc' = "legacy_generate"
              /\ UNCHANGED <<error, envelope, exit_code>>
         ELSE /\ error' = ErrArgs
              /\ envelope' = "failure"
              /\ exit_code' = 1
              /\ pc' = "exited"
              /\ UNCHANGED <<output_path, requests>>
    /\ UNCHANGED <<program, deps_ok, disk, device, vram_gb, loaded_pipeline,
                   current_model, quality_preset, model_info, pipeline,
                   written, result_path, load_calls, cached_before,
                   select_log>>
    /\ UNCHANGED call_counts
    /\ UNCHANGED installer_vars

\* lines 21-51 and 138-140: test_availability returns a dict in every case,
\* main prints it and falls off its end (exit 0)
LegacyTestAvailability ==
    /\ program = "legacy" /\ pc = "test_availability"
    /\ IF ~deps_ok
       THEN /\ error' = ErrImport
            /\ envelope' = "failure"
            /\ UNCHANGED device
       ELSE \E probe_ok \in BOOLEAN :
              IF probe_ok
              THEN /\ \E mps \in BOOLEAN, cuda \in BOOLEAN :
                        device' = _detect_device(mps, cuda)
                   /\ envelope' = "available"
                   /\ UNCHANGED error
              ELSE /\ error' = ErrDetect
                   /\ envelope' = "failure"
                   /\ UNCHANGED device
    /\ exit_code' = 0
    /\ pc' = "exited"
    /\ UNCHANGED <<program, deps_ok, disk, vram_gb, loaded_pipeline,
                   current_model, quality_preset, output_path, model_info,
                   pipeline, written, result_path, requests, load_calls,
                   cached_before, select_log>>
    /\ UNCHANGED call_counts
    /\ UNCHANGED installer_vars

\* lines 53-96: generate_image up to the image: the dependency check, the
\* device, from_pretrained and the inference call, all inside one try
LegacyPipeline ==
    /\ program = "legacy" /\ pc = "legacy_generate"
    /\ IF ~deps_ok
       THEN /\ error' = ErrImport
            /\ pc' = "legacy_report"
            /\ UNCHANGED <<device, pipeline, load_calls, infer_calls>>
       ELSE \E outcome \in {None, ErrDetect, ErrParams, ErrLoad, ErrInfer} :
              /\ load_calls' = IF outcome \in {None, ErrLoad, ErrInfer} THEN 1 ELSE 0
              /\ infer_calls' = IF outcome \in {None, ErrInfer} THEN 1 ELSE 0
              /\ IF outcome = None
                 THEN /\ \E mps \in BOOLEAN, cuda \in BOOLEAN :
                           device' = _detect_device(mps, cuda)
                      /\ pipeline' = "runwayml/stable-diffusion-v1-5"
                      /\ pc' = "legacy_save"
                      /\ UNCHANGED error
                 ELSE /\ error' = outcome
                      /\ pc' = "legacy_report"
                      /\ UNCHANGED <<device, pipeline>>
    /\ UNCHANGED select_calls
    /\ UNCHANGED <<program, deps_ok, disk, vram_gb, loaded_pipeline,
                   current_model, quality_preset, output_path, model_info,
                   written, envelope, result_path, exit_code, requests,
                   cached_before, select_log>>
    /\ UNCHANGED installer_vars

\* lines 98-118: make the output directory, save, build the success dict
LegacySave ==
    /\ program = "legacy" /\ pc = "legacy_save"
    /\ \E t \in 0..MaxClock, mk_ok \in BOOLEAN, save_ok \in BOOLEAN :
         LET image_path == <<LegacyOutputDir>> \o LegacyFilename(output_path, t)
         IN  IF ~mk_ok
             THEN error' = ErrMakedirs /\ UNCHANGED <<written, result_path>>
             ELSE IF ~save_ok
             THEN error' = ErrSave /\ UNCHANGED <<written, result_path>>
             ELSE /\ written' = written \cup {image_path}
                  /\ result_path' = image_path
                  /\ UNCHANGED error
    /\ pc' = "legacy_report"
    /\ UNCHANGED <<program, deps_ok, disk, device, vram_gb, loaded_pipeline,
                   current_model, quality_preset, output_path, model_info,
                   pipeline, envelope, exit_code, requests, load_calls,
                   cached_before, select_log>>
    /\ UNCHANGED call_counts
    /\ UNCHANGED installer_vars

\* lines 120-125 and 152-153: the except clause turns any exception into a
\* failure dict; main prints whichever dict came back and falls off its
\* end, so the exit status is 0 for both
LegacyReport ==
    /\ program = "legacy" /\ pc = "legacy_report"
    /\ envelope' = IF error = None THEN "success" ELSE "failure"
    /\ exit_code' = 0
    /\ pc' = "exited"
    /\ UNCHANGED <<program, deps_ok, disk, device, vram_gb, loaded_pipeline,
                   current_model, quality_preset, output_path, model_info,
                   pipeline, error, written, result_path, requests,
                   load_calls, cached_before, select_log>>
    /\ UNCHANGED call_counts
    /\ UNCHANGED installer_vars

\* ------------------------------------------------ install_flux_models.py
ErrConfig == "model_config.json write failure"
\* what one download_model call can meet
DownloadOutcomes == {"ok", "nonzero_returncode", "makedirs_error", "run_error"}

\* the state the installer does not touch
generator_vars == <<loaded_pipeline, current_model, quality_preset,
                    output_path, model_info, pipeline, written, envelope,
                    result_path, requests, load_calls, cached_before,
                    select_log, call_counts>>

\* lines 51-84: get_system_info: <<device, vram_gb>>, or <<>> for the None
\* it returns when anything in its try raised
get_system_info(probe_ok, mps, cuda, ram_gb, cuda_mem) ==
    IF ~probe_ok THEN <<>>
    ELSE IF mps THEN <<"mps", (ram_gb * 6) \div 10>>
    ELSE IF cuda THEN <<"cuda", cuda_mem>>
    ELSE <<"cpu", 0>>

download_plan_both_flux(vram) ==
    (IF vram >= 24 THEN <<"flux-dev">> ELSE <<>>)
    \o (IF vram >= 12 THEN <<"flux-schnell">> ELSE <<>>)
    \o <<"juggernaut-xl", "sdxl-lightning">>

\* lines 120-154: models_to_download, by the directory of each model
download_plan(vram) ==
    (IF vram >= 24 THEN <<"flux-dev">>
     ELSE IF vram >= 12 THEN <<"flux-schnell">>
     ELSE <<>>)
    \o <<"juggernaut-xl", "sdxl-lightning">>

\* lines 86-115: download_model returns True only for returncode 0; every
\* exception is caught and gives False
download_model(outcome) == outcome = "ok"

InitInstaller ==
    /\ program = "installer"
    /\ pc = "start"
    /\ deps_ok \in BOOLEAN
    /\ disk \in SUBSET {"juggernaut-xl", "flux-dev"}
    /\ device = None
    /\ vram_gb = Unset
    /\ loaded_pipeline = None
    /\ current_model = None
    /\ quality_preset = None
    /\ output_path = NoPath
    /\ model_info = None
    /\ pipeline = None
    /\ error = None
    /\ written = {}
    /\ envelope = None
    /\ result_path = NoPath
    /\ exit_code = Running
    /\ requests = 0
    /\ load_calls = 0
    /\ cached_before = None
    /\ select_log = [p \in Presets |-> None]
    /\ select_calls = 0
    /\ infer_calls = 0
    /\ reqs = None
    /\ plan = <<>>
    /\ results = <<>>
    /\ success_count = 0
    /\ returned = <<>>
    /\ config_writes = 0

\* lines 228-233 with check_requirements (15-26) and install_requirements
\* (28-49): go on when the packages import or pip installed them all
InstallerRequirements ==
    /\ program = "installer" /\ pc = "start"
    /\ IF deps_ok
       THEN /\ reqs' = "present"
            /\ pc' = "sysinfo"
            /\ UNCHANGED <<error, exit_code>>
       ELSE \E installed \in BOOLEAN :
              IF installed
              THEN /\ reqs' = "installed"
                   /\ pc' = "sysinfo"
                   /\ UNCHANGED <<error, exit_code>>
              ELSE /\ reqs' = "failed"
                   /\ error' = ErrImport
                   /\ exit_code' = 1
                   /\ pc' = "exited"
    /\ UNCHANGED <<program, deps_ok, disk, device, vram_gb, plan, results,
                   success_count, returned, config_writes>>
    /\ UNCHANGED generator_vars

\* lines 235-239: system_info = get_system_info(); None ends the run
InstallerSystemInfo ==
    /\ program = "installer" /\ pc = "sysinfo"
    /\ \E probe_ok \in BOOLEAN, mps \in BOOLEAN, cuda \in BOOLEAN,
          ram \in 0..MaxInstallRam, mem \in 0..MaxInstallVram :
         LET system_info == get_system_info(probe_ok, mps, cuda, ram, mem)
         IN  IF system_info = <<>>
             THEN /\ error' = ErrDetect
                  /\ exit_code' = 1
                  /\ pc' = "exited"
                  /\ UNCHANGED <<device, vram_gb>>
             ELSE /\ device' = system_info[1]
                  /\ vram_gb' = system_info[2]
                  /\ pc' = "plan"
                  /\ UNCHANGED <<error, exit_code>>
    /\ UNCHANGED <<program, deps_ok, disk>>
    /\ UNCHANGED installer_vars
    /\ UNCHANGED generator_vars

\* lines 117-157: download_flux_models builds models_to_download
InstallerPlan ==
    /\ program = "installer" /\ pc = "plan"
    /\ plan' = download_plan(vram_gb)
    /\ results' = <<>>
    /\ success_count' = 0
    /\ pc' = "download"
    /\ UNCHANGED <<program, deps_ok, disk, device, vram_gb, error, exit_code,
                   reqs, returned, config_writes>>
    /\ UNCHANGED generator_vars

\* lines 158-161: one turn of the download loop; os.makedirs creates the
\* model directory before the download runs
DownloadModel ==
    /\ program = "installer" /\ pc = "download"
    /\ Len(results) < Len(plan)
    /\ \E outcome \in DownloadOutcomes :
         /\ disk' = IF outcome = "makedirs_error" THEN disk
                    ELSE disk \cup {plan[Len(results) + 1]}
         /\ results' = Append(results, download_model(outcome))
         /\ success_count' = IF download_model(outcome)
                             THEN success_count + 1 ELSE success_count
    /\ UNCHANGED <<program, pc, deps_ok, device, vram_gb, error, exit_code,
                   reqs, plan, returned, config_writes>>
    /\ UNCHANGED generator_vars

\* line 163: return success_count, len(models_to_download)
DownloadReturn ==
    /\ program = "installer" /\ pc = "download"
    /\ Len(results) = Len(plan)
    /\ returned' = <<success_count, Len(plan)>>
    /\ pc' = "downloaded"
    /\ UNCHANGED <<program, deps_ok, disk, device, vram_gb, error, exit_code,
                   reqs, plan, results, success_count, config_writes>>
    /\ UNCHANGED generator_vars

InstallerFinish_no_zero_check ==
    /\ program = "installer" /\ pc = "downloaded"
    /\ config_writes' = config_writes + 1
    /\ exit_code' = 0
    /\ pc' = "exited"
    /\ UNCHANGED <<program, deps_ok, disk, device, vram_gb, error, reqs, plan,
                   results, success_count, returned>>
    /\ UNCHANGED generator_vars

\* lines 245-270 with create_model_config (165-212): no successful download
\* ends the run with 1; else the configuration is written once and main
\* falls off its end.  open() raising leaves main through the traceback.
InstallerFinish ==
    /\ program = "installer" /\ pc = "downloaded"
    /\ IF returned[1] = 0
       THEN /\ exit_code' = 1
            /\ UNCHANGED <<config_writes, error>>
       ELSE \E write_ok \in BOOLEAN :
              IF write_ok
              THEN /\ config_writes' = config_writes + 1
                   /\ exit_code' = 0
                   /\ UNCHANGED error
              ELSE /\ error' = ErrConfig
                   /\ exit_code' = 1
                   /\ UNCHANGED config_writes
    /\ pc' = "exited"
    /\ UNCHANGED <<program, deps_ok, disk, device, vram_gb, reqs, plan,
                   results, success_count, returned>>
    /\ UNCHANGED generator_vars

NextInstaller ==
    \/ InstallerRequirements
    \/ InstallerSystemInfo
    \/ InstallerPlan
    \/ DownloadModel
    \/ DownloadReturn
    \/ InstallerFinish

SpecInstaller == InitInstaller /\ [][NextInstaller]_vars


\* ------------------------------------------------------ specification
Next ==
    \/ ImportGuard
    \/ ParseArgs
    \/ Construct
    \/ CallGenerate
    \/ GetOptimalModel
    \/ LoadOrReuse
    \/ Infer
    \/ SaveImage
    \/ MainSuccess
    \/ MainExcept
    \/ LegacyMain
    \/ LegacyTestAvailability
    \/ LegacyPipeline
    \/ LegacySave
    \/ LegacyReport

Spec == Init /\ [][Next]_vars

\* ------------------------------------------------------------ claims
\* get_optimal_model has acted in the current request: it returned
\* model_info or raised NoCompatible
SelectDone ==
    /\ Enhanced /\ requests > 0 /\ pc # "select"
    /\ (model_info # None \/ error = NoCompatible)

\* the spec's policy table: each preset's priority list and threshold
PresetList(p) ==
    CASE p = "commercial" -> <<"realvis-xl", "juggernaut-xl">>
      [] p \in {"high_quality", "standard"} -> <<"juggernaut-xl", "realvis-xl">>
      [] p = "preview" -> <<"sdxl-lightning", "juggernaut-xl">>

PresetThreshold(p) ==
    CASE p = "commercial" -> 16
      [] p \in {"high_quality", "standard"} -> 8
      [] p = "preview" -> 6

\* the preset's threshold is met and a model of its list is on disk
RuleApplies ==
    /\ vram_gb >= PresetThreshold(quality_preset)
    /\ \E i \in 1..Len(PresetList(quality_preset)) :
         PresetList(quality_preset)[i] \in disk

FirstPresent(list) ==
    list[CHOOSE i \in 1..Len(list) :
            list[i] \in disk /\ \A j \in 1..(i - 1) : list[j] \notin disk]

\* the load step has acted in the current request and handed over a pipeline
LoadDone ==
    /\ Enhanced /\ requests > 0 /\ model_info # None
    /\ pc \notin {"select", "load"}
    /\ error # ErrLoad

\* generate_outfit_image returned in the current request
Returned ==
    /\ Enhanced /\ requests > 0 /\ error = None
    /\ pc \in {"main_ok", "exited", "ready"}

\* C1: every model get_optimal_model returns is present on disk and has
\* vram_required <= vram_gb.
ClaimC1 ==
    (SelectDone /\ model_info # None) =>
        /\ model_info \in disk
        /\ sdxl_models[model_info].vram_required <= vram_gb

\* C2: when the preset's memory threshold is met and a model of the
\* preset's list is present, the model returned is the first present model
\* of that list in listed order.
TheoremC2 ==
    (SelectDone /\ RuleApplies) =>
        /\ error # NoCompatible
        /\ model_info = FirstPresent(PresetList(quality_preset))

WitnessC2 ==
    /\ SelectDone /\ RuleApplies
    /\ quality_preset = "high_quality"
    /\ {"juggernaut-xl", "realvis-xl"} \subseteq disk
    /\ model_info = "juggernaut-xl"

\* C3: if sd15 is present on disk and the preset's priority rule chose no
\* model, get_optimal_model returns sd15 instead of failing.
ClaimC3 ==
    (SelectDone /\ ~RuleApplies /\ "sd15" \in disk) =>
        /\ error # NoCompatible
        /\ model_info = "sd15"

\* C4: when the preset's rule yields no model and sd15 is not present,
\* get_optimal_model raises the no-compatible-model error and returns no
\* model, whatever the preset and the memory.
TheoremC4 ==
    (SelectDone /\ ~RuleApplies /\ "sd15" \notin disk) =>
        /\ error = NoCompatible
        /\ model_info = None

WitnessC4 ==
    /\ SelectDone
    /\ quality_preset = "standard"
    /\ disk = {}
    /\ vram_gb >= 16
    /\ error = NoCompatible

\* C5: within one generator (fixed disk and vram_gb) every call of
\* get_optimal_model with a preset gives the outcome the first call with
\* that preset gave, whatever is cached and whatever was served before.
TheoremC5 ==
    SelectDone =>
        select_log[quality_preset] =
            (IF error = NoCompatible THEN NoCompatible ELSE model_info)

WitnessC5 ==
    /\ SelectDone
    /\ requests = 2
    /\ Cardinality({p \in Presets : select_log[p] # None}) = 1
    /\ cached_before # None
    /\ model_info # None

\* C6: when a detection step raises, the detector still yields the record
\* (cpu, 0 GB) and the error does not reach the caller.
ClaimC6 ==
    (Enhanced /\ error = ErrDetect) =>
        /\ device = "cpu"
        /\ vram_gb = 0
        /\ pc \notin {"main_except", "crashed", "exited"}

\* C7: a request whose selected model equals the cached model reuses the
\* cached pipeline without a load_pipeline call; one whose selected model
\* differs loads once and replaces the cached pipeline; the pipeline handed
\* to inference is the one loaded for the selected model.
TheoremC7 ==
    /\ LoadDone =>
        /\ pipeline = model_info
        /\ loaded_pipeline = model_info
        /\ current_model = model_info
        /\ (cached_before = model_info => load_calls = 0)
        /\ (cached_before # model_info => load_calls = 1)
    /\ (Enhanced /\ error = ErrLoad) =>
        /\ cached_before # model_info
        /\ load_calls = 1

WitnessC7 ==
    /\ LoadDone
    /\ pc = "save"
    /\ cached_before \notin {None, model_info}
    /\ load_calls = 1
    /\ pipeline = model_info

\* C8: every failure of an entry point ends with the JSON failure envelope
\* on stdout and a non-zero exit code.
ClaimC8 ==
    (pc = "exited" /\ error # None) =>
        /\ envelope = "failure"
        /\ exit_code # 0

\* C9: a finished run either wrote exactly one image and reports success
\* with that path, or wrote no image and reports failure.
TheoremC9 ==
    /\ pc = "exited" =>
        \/ /\ envelope = "success"
           /\ error = None
           /\ written = {result_path}
        \/ /\ envelope # "success"
           /\ written = {}
           /\ (requests > 0 => error # None /\ envelope = "failure")
    /\ (program = "enhanced_api" /\ pc = "ready" /\ requests > 0) =>
        \/ error = None /\ written = {result_path}
        \/ error # None /\ written = {} /\ result_path = NoPath

WitnessC9 ==
    /\ pc = "exited"
    /\ requests > 0
    /\ envelope = "failure"
    /\ error = ErrSave
    /\ written = {}

\* C10: a request that returned with an explicit output path reports that
\* path unchanged and wrote that path only; the default timestamped path is
\* reported only when no path was given.
TheoremC10 ==
    Returned =>
        /\ output_path # NoPath =>
              result_path = output_path /\ written = {output_path}
        /\ Len(result_path) = 3 => output_path = NoPath

WitnessC10 ==
    /\ Returned
    /\ envelope = "success"
    /\ output_path = <<"/out", "look.png">>
    /\ result_path = output_path

\* C11: selection, pipeline loading and the inference call are each
\* attempted at most once per request, and once one of them failed none of
\* them is attempted again in that request (in the command line programs:
\* before the process exits).
TheoremC11 ==
    /\ [](select_calls <= 1 /\ load_calls <= 1 /\ infer_calls <= 1)
    /\ [][(error # None /\ requests' = requests) =>
             UNCHANGED <<select_calls, load_calls, infer_calls>>]_vars

WitnessC11 ==
    /\ program = "enhanced_cli"
    /\ pc = "exited"
    /\ error = ErrInfer
    /\ select_calls = 1 /\ load_calls = 1 /\ infer_calls = 1

\* C12: a returned model is in the requested preset's own list with the
\* preset's threshold met, or is the sd15 fallback; when the preset's
\* threshold is not met no SDXL model is returned.
TheoremC12 ==
    /\ (SelectDone /\ model_info # None) =>
          \/ model_info = "sd15"
          \/ /\ vram_gb >= PresetThreshold(quality_preset)
             /\ \E i \in 1..Len(PresetList(quality_preset)) :
                   PresetList(quality_preset)[i] = model_info
    /\ (SelectDone /\ vram_gb < PresetThreshold(quality_preset)) =>
          model_info \notin DOMAIN sdxl_models

WitnessC12 ==
    /\ SelectDone
    /\ quality_preset = "commercial"
    /\ vram_gb \in 8..15
    /\ "juggernaut-xl" \in disk
    /\ error = NoCompatible
    /\ model_info = None

\* C15: loaded_pipeline is empty exactly when current_model is; a failing
\* load_pipeline call leaves both as they were; get_optimal_model changes
\* neither.
TheoremC15 ==
    /\ [](loaded_pipeline = None <=> current_model = None)
    /\ [][((pc = "load" /\ error' = ErrLoad) \/ pc = "select") =>
             UNCHANGED <<loaded_pipeline, current_model>>]_vars

WitnessC15 ==
    /\ Enhanced
    /\ error = ErrLoad
    /\ current_model # None
    /\ loaded_pipeline = current_model
    /\ model_info \notin {None, current_model}

\* C13: model_config.json is written only after the requirements stage
\* succeeded, the system capability was obtained and at least one download
\* succeeded; a failed requirement installation, a failed detection or zero
\* successful downloads end the run with exit code 1 and no file; the file
\* is written at most once.
TheoremC13 ==
    /\ config_writes <= 1
    /\ config_writes = 1 =>
          /\ reqs \in {"present", "installed"}
          /\ device # None /\ vram_gb # Unset
          /\ returned # <<>> /\ returned[1] >= 1
          /\ \E i \in 1..Len(results) : results[i]
    /\ (reqs = "failed" \/ error = ErrDetect) =>
          pc = "exited" /\ exit_code = 1 /\ config_writes = 0
    /\ (pc = "exited" /\ returned # <<>> /\ returned[1] = 0) =>
          exit_code = 1 /\ config_writes = 0

WitnessC13 ==
    /\ program = "installer"
    /\ pc = "exited"
    /\ exit_code = 0
    /\ config_writes = 1
    /\ reqs = "installed"
    /\ returned = <<1, 3>>

\* C14: download_flux_models plans flux-dev at 24 GB and more, flux-schnell
\* from 12 GB up to 24, no FLUX model below, and always juggernaut-xl and
\* sdxl-lightning; it attempts every planned download whatever failed
\* before, and returns (success_count, total) with total in {2, 3} and
\* success_count the number of downloads that succeeded.
TheoremC14 ==
    (program = "installer" /\ returned # <<>>) =>
        LET planned == {plan[i] : i \in 1..Len(plan)}
        IN  /\ "flux-dev" \in planned <=> vram_gb >= 24
            /\ "flux-schnell" \in planned <=> (vram_gb >= 12 /\ vram_gb < 24)
            /\ {"juggernaut-xl", "sdxl-lightning"} \subseteq planned
            /\ Cardinality(planned) = Len(plan)
            /\ Len(results) = Len(plan)
            /\ returned[2] = Len(plan)
            /\ returned[2] \in {2, 3}
            /\ returned[1] = Cardinality({i \in 1..Len(results) : results[i]})
            /\ 0 <= returned[1] /\ returned[1] <= returned[2]

WitnessC14 ==
    /\ program = "installer"
    /\ vram_gb >= 24
    /\ plan = <<"flux-dev", "juggernaut-xl", "sdxl-lightning">>
    /\ results = <<FALSE, TRUE, TRUE>>
    /\ returned = <<2, 3>>

====
